---- MODULE Spec2Model ----
(***************************************************************************)
(* Model of src/main.py: the /upload-csv/ endpoint (upload_csv), the table *)
(* creation, the CSV reconcile routine (insert_or_update_data_from_csv),   *)
(* the pydantic row models and the AVRO backup (backup_table_to_avro).     *)
(*                                                                         *)
(* One ingestion call is a chain of steps, one action per statement group  *)
(* of upload_csv; the SQLite database is the committed state `db`, the     *)
(* orchestrator connection's uncommitted view of the target table is       *)
(* `work`.  Environment failures (sqlite3 errors, file errors) are         *)
(* nondeterministic alternatives of the step that can raise them.          *)
(***************************************************************************)
EXTENDS Naturals, Sequences, FiniteSets

\* ------------------------------------------------------------------ bounds
MaxRows == 2      \* rows per uploaded CSV
MaxId == 2        \* distinct numeric ids appearing in uploads
MaxCalls == 2     \* ingestion calls per behaviour

\* ------------------------------------------------------- schema registry
TableNames == {"departments", "jobs", "hired_employees"}

\* base names of uploaded files: the three tables and an unrecognised one
FileNames == TableNames \cup {"nonexistent_table"}

\* get_model_and_columns_for_table: the column list of each table
Columns(t) ==
    IF t = "departments" THEN <<"id", "department">>
    ELSE IF t = "jobs" THEN <<"id", "job">>
    ELSE <<"id", "name", "datetime", "department_id", "job_id">>

\* fields annotated int in the pydantic models (the others are str)
IntColumns == {"id", "department_id", "job_id"}

\* fields carrying the check_not_empty before-validator
CheckedColumns == {"name", "datetime", "department_id", "job_id", "department", "job"}

ColSet(t) == {Columns(t)[i] : i \in 1..Len(Columns(t))}

\* --------------------------------------------------- numerals and str()
\* decimal numerals of the integers 1..Len(Digits)
Digits == <<"1", "2", "3", "4", "5">>

IsNumeric(s) == \E i \in 1..Len(Digits) : Digits[i] = s

\* int("2") = 2
ToInt(s) == CHOOSE i \in 1..Len(Digits) : Digits[i] = s

\* str(value) as used by the backup: an int becomes its numeral, a str is itself
PyStr(col, v) == IF col \in IntColumns THEN Digits[v] ELSE v

\* --------------------------------------------------------- uploaded CSVs
NumCells == {Digits[i] : i \in 1..MaxId}

\* text of one CSV cell, per column
CellsFor(col) ==
    IF col = "id" THEN NumCells \cup {"x"}
    ELSE IF col = "department" THEN {"a", "b", ""}
    ELSE IF col = "job" THEN {"a", ""}
    ELSE IF col = "name" THEN {"n", ""}
    ELSE IF col = "datetime" THEN {"d"}
    ELSE {"1"}

AllColumns == UNION {ColSet(t) : t \in TableNames}

AllCells == UNION {CellsFor(c) : c \in AllColumns}

\* full-width lines of a CSV for table t
FullRows(t) ==
    {r \in [1..Len(Columns(t)) -> AllCells] :
        \A j \in 1..Len(Columns(t)) : r[j] \in CellsFor(Columns(t)[j])}

\* a line whose last field is missing, and a line whose text field is a numeral
ExtraRows(t) ==
    IF t = "hired_employees" THEN {<<"2", "n", "d", "1">>, <<"1", "n", "d", "x", "1">>}
    ELSE IF t = "jobs" THEN {<<"2", "1">>}
    ELSE {<<"1">>, <<"2", "1">>}

RawRows(f) == IF f \in TableNames THEN FullRows(f) \cup ExtraRows(f) ELSE {<<"1", "a">>}

\* the uploaded files: up to MaxRows lines, possibly none
Batches(f) == UNION {[1..n -> RawRows(f)] : n \in 0..MaxRows}

\* ------------------------------------------------------------ pd.read_csv
\* read_csv(header=None) followed by data.columns = columns raises on an empty
\* file (EmptyDataError), on a line wider than the first one (ParserError) and
\* when the first line's width is not the table's column count (ValueError)
ReadFails(b, t) ==
    \/ b = <<>>
    \/ \E i \in 1..Len(b) : Len(b[i]) > Len(b[1])
    \/ Len(b[1]) # Len(Columns(t))

\* a line shorter than the first one is padded with missing values
CellAt(b, i, j) == IF j <= Len(b[i]) THEN b[i][j] ELSE ""

\* dtype inference: a column of numerals (and blanks) is numeric, any other is object
ColNumeric(b, j) ==
    \A i \in 1..Len(b) : CellAt(b, i, j) = "" \/ IsNumeric(CellAt(b, i, j))

ColIndex(t, c) == CHOOSE j \in 1..Len(Columns(t)) : Columns(t)[j] = c

\* a blank cell is NaN; a cell of a numeric column is a number; any other is a str
ParseCell(b, i, j) ==
    IF CellAt(b, i, j) = "" THEN [k |-> "nan", s |-> ""]
    ELSE IF ColNumeric(b, j) THEN [k |-> "num", s |-> CellAt(b, i, j)]
    ELSE [k |-> "str", s |-> CellAt(b, i, j)]

\* the DataFrame: one dict per line, keyed by the table's columns
read_csv(b, t) ==
    [i \in 1..Len(b) |-> [c \in ColSet(t) |-> ParseCell(b, i, ColIndex(t, c))]]

\* -------------------------------------------------------- pydantic models
\* check_not_empty passes unless the value is None or ""
check_not_empty(cell) == ~(cell.k = "none" \/ (cell.k = "str" /\ cell.s = ""))

\* an int field takes a finite whole number or a str holding a numeral (NaN fails)
IntOk(cell) == cell.k = "num" \/ (cell.k = "str" /\ IsNumeric(cell.s))

StrOkLax(cell) == cell.k \in {"str", "num", "nan"}

\* a str field takes only a str: NaN and numbers are rejected
StrOk(cell) == cell.k = "str"

FieldOk(col, cell) ==
    /\ col \in CheckedColumns => check_not_empty(cell)
    /\ IF col \in IntColumns THEN IntOk(cell) ELSE StrOk(cell)

\* Model(**row.to_dict()) does not raise ValidationError
RowValid(t, row) == \A c \in ColSet(t) : FieldOk(c, row[c])

\* validated_data.dict(): int fields as integers, str fields as text
ModelDict(t, row) ==
    [c \in ColSet(t) |-> IF c \in IntColumns THEN ToInt(row[c].s) ELSE row[c].s]

\* whether the reconcile routine raises because invalid_rows is not empty
InvalidRowsAbortStrict(inv) == inv # <<>>

\* (it only logs them)
InvalidRowsAbort(inv) == FALSE

RECURSIVE ValidationLoopDrop(_, _, _, _)
ValidationLoopDrop(t, data, i, acc) ==
    IF i > Len(data) THEN acc
    ELSE IF RowValid(t, data[i])
         THEN ValidationLoopDrop(t, data, i + 1,
                  [acc EXCEPT !.valid = Append(@, ModelDict(t, data[i]))])
         ELSE acc

\* the for loop over data.iterrows(): valid_rows and invalid_rows, in source order;
\* an invalid row is recorded with its 0-based index
RECURSIVE ValidationLoop(_, _, _, _)
ValidationLoop(t, data, i, acc) ==
    IF i > Len(data) THEN acc
    ELSE IF RowValid(t, data[i])
         THEN ValidationLoop(t, data, i + 1,
                  [acc EXCEPT !.valid = Append(@, ModelDict(t, data[i]))])
         ELSE ValidationLoop(t, data, i + 1,
                  [acc EXCEPT !.invalid = Append(@, [index |-> i - 1, row |-> data[i]])])

\* ------------------------------------------------------------ the upsert
HasId(tbl, id) == \E i \in 1..Len(tbl) : tbl[i].id = id

\* rows of an INTEGER PRIMARY KEY table are kept in id order
InsertRow(tbl, rec) ==
    LET p == Cardinality({i \in 1..Len(tbl) : tbl[i].id < rec.id})
    IN  SubSeq(tbl, 1, p) \o <<rec>> \o SubSeq(tbl, p + 1, Len(tbl))

\* DO UPDATE SET col = ? for every column but id, from values[1:]
UpdateRow(tbl, rec) ==
    [i \in 1..Len(tbl) |->
        IF tbl[i].id = rec.id
        THEN [c \in DOMAIN rec |-> IF c = "id" THEN tbl[i].id ELSE rec[c]]
        ELSE tbl[i]]

UpsertRowKeepOld(tbl, rec) == IF HasId(tbl, rec.id) THEN tbl ELSE InsertRow(tbl, rec)

UpsertRowNoConflict(tbl, rec) == InsertRow(tbl, rec)

\* INSERT ... ON CONFLICT(id) DO UPDATE SET ...
UpsertRow(tbl, rec) ==
    IF HasId(tbl, rec.id) THEN UpdateRow(tbl, rec) ELSE InsertRow(tbl, rec)

\* the effect of conn.commit() on the database
CommitSkipped(d, t, w) == d

Commit(d, t, w) == [d EXCEPT ![t] = w]

\* the effect of conn.close() on the database: an open transaction is lost
CloseCommits(d, t, w) == IF t \in TableNames THEN [d EXCEPT ![t] = w] ELSE d

CloseDiscards(d, t, w) == d

\* conn.close(): the connection is no longer open
CloseLeaks(c) == c

CloseConnection(c) == FALSE

\* create_table: CREATE TABLE IF NOT EXISTS for a known name, ValueError otherwise
CreateTableEager(ts, t) == [ok |-> t \in TableNames, tables |-> ts \cup {t}]

CreateTableResult(ts, t) ==
    IF t \in TableNames THEN [ok |-> TRUE, tables |-> ts \cup {t}]
    ELSE [ok |-> FALSE, tables |-> ts]

\* ------------------------------------------------------------ the backup
\* records = [{col: str(value) ...} for row in rows]
BackupRecords(rows) ==
    [i \in 1..Len(rows) |-> [c \in DOMAIN rows[i] |-> PyStr(c, rows[i][c])]]

WriteFileAppend(old, records) == old \o records

\* open(path, "wb") and writer(...): the file holds the new records only
WriteFile(old, records) == records

\* ------------------------------------------------------------- the state
VARIABLES
    pc,            \* position of the current call in upload_csv ("idle": none running)
    calls,         \* ingestion calls started so far
    file,          \* base name of the uploaded file = table_name
    batch,         \* lines of the uploaded CSV, each a sequence of cell texts
    conn,          \* the orchestrator's connection is open
    bconn,         \* the exporter's connection is open
    tables,        \* tables existing in the database
    db,            \* committed rows of each table, in id order
    work,          \* rows of the target table as the orchestrator's connection sees them
    data,          \* the DataFrame
    valid_rows,
    invalid_rows,
    k,             \* index in valid_rows of the record being upserted
    err,           \* the exception raised in the call, "none" when none
    response,      \* HTTP status of the last call, 0 while none has returned
    backup,        \* records of each table's backup file
    files,         \* tables whose backup file exists
    pre            \* database and backup files as they were when the call started

vars == <<pc, calls, file, batch, conn, bconn, tables, db, work, data, valid_rows,
          invalid_rows, k, err, response, backup, files, pre>>

request == <<calls, file, batch, pre>>
reconcile == <<data, valid_rows, invalid_rows, k>>
storage == <<tables, db, work>>
exported == <<backup, files>>

Snapshot == [db |-> db, tables |-> tables, backup |-> backup, files |-> files]

Init ==
    /\ pc = "idle"
    /\ calls = 0
    /\ file = "departments"
    /\ batch = <<>>
    /\ conn = FALSE
    /\ bconn = FALSE
    /\ tables = {}
    /\ db = [t \in TableNames |-> <<>>]
    /\ work = <<>>
    /\ data = <<>>
    /\ valid_rows = <<>>
    /\ invalid_rows = <<>>
    /\ k = 1
    /\ err = "none"
    /\ response = 0
    /\ backup = [t \in TableNames |-> <<>>]
    /\ files = {}
    /\ pre = [db |-> [t \in TableNames |-> <<>>], tables |-> {},
              backup |-> [t \in TableNames |-> <<>>], files |-> {}]

\* ------------------------------------------------------------ upload_csv
\* a request arrives with file f holding the lines b
Upload(f, b) ==
    /\ pc = "idle"
    /\ calls < MaxCalls
    /\ pc' = "save"
    /\ calls' = calls + 1
    /\ file' = f
    /\ batch' = b
    /\ pre' = Snapshot
    /\ data' = <<>>
    /\ valid_rows' = <<>>
    /\ invalid_rows' = <<>>
    /\ k' = 1
    /\ err' = "none"
    /\ response' = 0
    /\ UNCHANGED <<conn, bconn, storage, exported>>

\* the upload is written to the temporary file
SaveFile ==
    /\ pc = "save"
    /\ pc' = "connect"
    /\ UNCHANGED <<request, conn, bconn, storage, reconcile, err, response, exported>>

SaveFails ==
    /\ pc = "save"
    /\ err' = "save"
    /\ pc' = "respond"
    /\ UNCHANGED <<request, conn, bconn, storage, reconcile, response, exported>>

\* conn = get_connection()
Connect ==
    /\ pc = "connect"
    /\ conn' = TRUE
    /\ pc' = "create"
    /\ UNCHANGED <<request, bconn, storage, reconcile, err, response, exported>>

ConnectFails ==
    /\ pc = "connect"
    /\ err' = "connect"
    /\ pc' = "respond"
    /\ UNCHANGED <<request, conn, bconn, storage, reconcile, response, exported>>

\* create_table(conn, table_name): committed at once; an unknown name raises
CreateTable ==
    /\ pc = "create"
    /\ LET r == CreateTableResult(tables, file)
       IN  /\ tables' = r.tables
           /\ IF r.ok
              THEN /\ work' = db[file]
                   /\ pc' = "read"
                   /\ err' = err
              ELSE /\ work' = work
                   /\ pc' = "finally"
                   /\ err' = "unknown_table"
    /\ UNCHANGED <<request, conn, bconn, db, reconcile, response, exported>>

\* the CREATE TABLE statement raises a sqlite3 error
CreateTableFails ==
    /\ pc = "create"
    /\ file \in TableNames
    /\ err' = "create"
    /\ pc' = "finally"
    /\ UNCHANGED <<request, conn, bconn, storage, reconcile, response, exported>>

\* ---------------------------------------- insert_or_update_data_from_csv
ReadCsv ==
    /\ pc = "read"
    /\ IF ReadFails(batch, file)
       THEN /\ err' = "read"
            /\ pc' = "finally"
            /\ data' = data
       ELSE /\ data' = read_csv(batch, file)
            /\ pc' = "validate"
            /\ err' = err
    /\ UNCHANGED <<request, conn, bconn, storage, valid_rows, invalid_rows, k,
                   response, exported>>

Validate ==
    /\ pc = "validate"
    /\ LET r == ValidationLoop(file, data, 1, [valid |-> <<>>, invalid |-> <<>>])
       IN  /\ valid_rows' = r.valid
           /\ invalid_rows' = r.invalid
           /\ IF InvalidRowsAbort(r.invalid)
              THEN /\ err' = "validation"
                   /\ pc' = "finally"
              ELSE /\ err' = err
                   /\ pc' = IF r.valid # <<>> THEN "upsert" ELSE "backup"
    /\ UNCHANGED <<request, conn, bconn, storage, data, k, response, exported>>

\* cursor.execute of the upsert of valid_rows[k], inside the open transaction
Execute ==
    /\ pc = "upsert"
    /\ work' = UpsertRow(work, valid_rows[k])
    /\ IF k = Len(valid_rows)
       THEN pc' = "commit" /\ k' = k
       ELSE pc' = "upsert" /\ k' = k + 1
    /\ UNCHANGED <<request, conn, bconn, tables, db, data, valid_rows, invalid_rows,
                   err, response, exported>>

\* cursor.execute raises a sqlite3 error on valid_rows[k]
ExecuteFails ==
    /\ pc = "upsert"
    /\ err' = "upsert"
    /\ pc' = "finally"
    /\ UNCHANGED <<request, conn, bconn, storage, reconcile, response, exported>>

\* conn.commit() after the loop
DoCommit ==
    /\ pc = "commit"
    /\ db' = Commit(db, file, work)
    /\ pc' = "backup"
    /\ UNCHANGED <<request, conn, bconn, tables, work, reconcile, err, response,
                   exported>>

CommitFails ==
    /\ pc = "commit"
    /\ err' = "commit"
    /\ pc' = "finally"
    /\ UNCHANGED <<request, conn, bconn, storage, reconcile, response, exported>>

\* --------------------------------------------------- backup_table_to_avro
BackupConnect ==
    /\ pc = "backup"
    /\ bconn' = TRUE
    /\ pc' = "export"
    /\ UNCHANGED <<request, conn, storage, reconcile, err, response, exported>>

BackupConnectFails ==
    /\ pc = "backup"
    /\ err' = "export"
    /\ pc' = "finally"
    /\ UNCHANGED <<request, conn, bconn, storage, reconcile, response, exported>>

\* SELECT * on the exporter's own connection, then the file is rewritten
BackupWrite ==
    /\ pc = "export"
    /\ backup' = [backup EXCEPT ![file] = WriteFile(@, BackupRecords(db[file]))]
    /\ files' = files \cup {file}
    /\ pc' = "bclose"
    /\ UNCHANGED <<request, conn, bconn, storage, reconcile, err, response>>

\* the SELECT raises: the file is not opened
BackupQueryFails ==
    /\ pc = "export"
    /\ err' = "export"
    /\ pc' = "bclose"
    /\ UNCHANGED <<request, conn, bconn, storage, reconcile, response, exported>>

\* the write raises after open(path, "wb") truncated the file: n records got out
BackupWriteFails ==
    /\ pc = "export"
    /\ \E n \in 0..Len(db[file]) :
          backup' = [backup EXCEPT ![file] = SubSeq(BackupRecords(db[file]), 1, n)]
    /\ files' = files \cup {file}
    /\ err' = "export"
    /\ pc' = "bclose"
    /\ UNCHANGED <<request, conn, bconn, storage, reconcile, response>>

\* finally: conn.close() in backup_table_to_avro
BackupFinally ==
    /\ pc = "bclose"
    /\ bconn' = CloseConnection(bconn)
    /\ pc' = "finally"
    /\ UNCHANGED <<request, conn, storage, reconcile, err, response, exported>>

\* finally: conn.close() in upload_csv
Finally ==
    /\ pc = "finally"
    /\ conn' = CloseConnection(conn)
    /\ db' = CloseDiscards(db, file, work)
    /\ work' = <<>>
    /\ pc' = IF err = "none" THEN "remove" ELSE "respond"
    /\ UNCHANGED <<request, bconn, tables, reconcile, err, response, exported>>

\* os.remove(file_path) and the success message
RemoveTemp ==
    /\ pc = "remove"
    /\ response' = 200
    /\ pc' = "idle"
    /\ UNCHANGED <<request, conn, bconn, storage, reconcile, err, exported>>

RemoveFails ==
    /\ pc = "remove"
    /\ err' = "remove"
    /\ pc' = "respond"
    /\ UNCHANGED <<request, conn, bconn, storage, reconcile, response, exported>>

\* except Exception: HTTPException(status_code=500)
Respond500 ==
    /\ pc = "respond"
    /\ response' = 500
    /\ pc' = "idle"
    /\ UNCHANGED <<request, conn, bconn, storage, reconcile, err, exported>>

Next ==
    \/ \E f \in FileNames : \E b \in Batches(f) : Upload(f, b)
    \/ SaveFile
    \/ SaveFails
    \/ Connect
    \/ ConnectFails
    \/ CreateTable
    \/ CreateTableFails
    \/ ReadCsv
    \/ Validate
    \/ Execute
    \/ ExecuteFails
    \/ DoCommit
    \/ CommitFails
    \/ BackupConnect
    \/ BackupConnectFails
    \/ BackupWrite
    \/ BackupQueryFails
    \/ BackupWriteFails
    \/ BackupFinally
    \/ Finally
    \/ RemoveTemp
    \/ RemoveFails
    \/ Respond500

Spec == Init /\ [][Next]_vars

\* ------------------------------------------------------------ properties
\* a call has returned
Finished == pc = "idle" /\ response # 0

\* the validation loop of the current call has finished
ValidationDone == data # <<>> /\ pc # "validate"

\* the reconcile routine of the current call returned without raising
Reconciled ==
    /\ data # <<>>
    /\ \/ pc \in {"backup", "export", "bclose"}
       \/ pc \in {"finally", "remove", "respond", "idle"} /\ err \in {"none", "export", "remove"}

InvalidIndexes == {invalid_rows[j].index : j \in 1..Len(invalid_rows)}

\* position in valid_rows of line i when it is not among the invalid ones
ValidPos(i) == i - Cardinality({x \in InvalidIndexes : x < i - 1})

RECURSIVE ApplyAll(_, _)
ApplyAll(tbl, recs) ==
    IF recs = <<>> THEN tbl
    ELSE ApplyAll(UpsertRow(tbl, Head(recs)), Tail(recs))

RowsWithId(tbl, id) == {tbl[i] : i \in {x \in 1..Len(tbl) : tbl[x].id = id}}

UniqueIds(tbl) == \A i, j \in 1..Len(tbl) : tbl[i].id = tbl[j].id => i = j

\* the line as uploaded has a missing or blank non-id field, or an id that is no number
BadRaw(t, raw) ==
    \/ ~IsNumeric(raw[1])
    \/ \E j \in 2..Len(Columns(t)) : j > Len(raw) \/ raw[j] = ""

OtherTablesKept == \A t \in TableNames \ {file} : db[t] = pre.db[t]

\* C1: when the validation loop has finished, valid_rows and invalid_rows together
\* hold as many entries as the batch has lines, and every line is either recorded
\* once in invalid_rows under its index or stands at its place in valid_rows,
\* never both and never neither.
PartitionComplete ==
    ValidationDone =>
        /\ Len(valid_rows) + Len(invalid_rows) = Len(batch)
        /\ Cardinality(InvalidIndexes) = Len(invalid_rows)
        /\ InvalidIndexes \subseteq 0..(Len(batch) - 1)
        /\ \A j \in 1..Len(invalid_rows) :
              invalid_rows[j].row = data[invalid_rows[j].index + 1]
        /\ \A i \in 1..Len(batch) :
              (i - 1) \notin InvalidIndexes =>
                  /\ ValidPos(i) \in 1..Len(valid_rows)
                  /\ valid_rows[ValidPos(i)] = ModelDict(file, data[i])

PartitionWitness ==
    /\ ValidationDone
    /\ Len(batch) = 2
    /\ InvalidIndexes = {0}
    /\ Len(valid_rows) = 1

\* C2: once the reconcile routine has returned without a storage error, the table
\* is the table of before the call with exactly the valid rows upserted in order:
\* a line with a blank or missing non-id field or a non-numeric id is among the
\* invalid rows and neither inserts nor changes a stored row, and every other line
\* is stored whatever invalid lines precede it.
OnlyValidRowsWritten ==
    Reconciled =>
        /\ db[file] = ApplyAll(pre.db[file], valid_rows)
        /\ OtherTablesKept
        /\ \A i \in 1..Len(batch) :
              IF BadRaw(file, batch[i])
              THEN (i - 1) \in InvalidIndexes
              ELSE (i - 1) \notin InvalidIndexes =>
                      \E j \in 1..Len(valid_rows) :
                          /\ valid_rows[j] = ModelDict(file, data[i])
                          /\ HasId(db[file], valid_rows[j].id)
        /\ \A id \in 1..Len(Digits) :
              (~\E j \in 1..Len(valid_rows) : valid_rows[j].id = id) =>
                  RowsWithId(db[file], id) = RowsWithId(pre.db[file], id)

InvalidThenValidWitness ==
    /\ Finished
    /\ Reconciled
    /\ Len(batch) = 2
    /\ BadRaw(file, batch[1])
    /\ IsNumeric(batch[1][1])
    /\ ~BadRaw(file, batch[2])
    /\ Len(valid_rows) = 1
    /\ db[file] # pre.db[file]

\* C3: a table never holds two rows with one id, and after a call whose upserts were
\* committed the row of every id carried by a valid record of the batch equals, in
\* every field, the last valid record of the batch with that id, while the rows of
\* the other ids are those of before the call.
LastWriterWins ==
    /\ \A t \in TableNames : UniqueIds(db[t])
    /\ UniqueIds(work)
    /\ Reconciled =>
          \A id \in 1..Len(Digits) :
              LET js == {j \in 1..Len(valid_rows) : valid_rows[j].id = id}
              IN  IF js = {}
                  THEN RowsWithId(db[file], id) = RowsWithId(pre.db[file], id)
                  ELSE RowsWithId(db[file], id) =
                          {valid_rows[CHOOSE j \in js : \A x \in js : x <= j]}

OverwriteWitness ==
    /\ Finished
    /\ response = 200
    /\ Len(valid_rows) = 2
    /\ valid_rows[1].id = valid_rows[2].id
    /\ valid_rows[1] # valid_rows[2]
    /\ HasId(pre.db[file], valid_rows[2].id)
    /\ valid_rows[2] \notin RowsWithId(pre.db[file], valid_rows[2].id)

\* C4: upserting a valid record into a table that already received it changes
\* nothing: on every table state the connection sees, two upserts of a record of
\* the batch give the table one upsert gives, and a call whose batch has one valid
\* record leaves a table on which upserting that record again is a no-op.
UpsertIdempotent ==
    /\ pc \in {"upsert", "commit"} =>
          \A j \in 1..Len(valid_rows) :
              UpsertRow(UpsertRow(work, valid_rows[j]), valid_rows[j])
                  = UpsertRow(work, valid_rows[j])
    /\ (Reconciled /\ Len(valid_rows) = 1) =>
          UpsertRow(db[file], valid_rows[1]) = db[file]

SameRecordTwiceWitness ==
    /\ pc = "commit"
    /\ Len(valid_rows) = 2
    /\ valid_rows[1] = valid_rows[2]
    /\ Len(work) = 2
    /\ work # db[file]

\* C5: during and after a call whose file names no known table, the database and
\* the backup files are those of before the call (no table created, no row
\* written, no backup exported); the call ends with status 500, and with the
\* unknown-table error as soon as create_table was reached.
UnknownTableLeavesStorage ==
    (calls > 0 /\ file \notin TableNames) =>
        /\ db = pre.db
        /\ tables = pre.tables
        /\ backup = pre.backup
        /\ files = pre.files
        /\ pc \in {"idle", "save", "connect", "create", "finally", "respond"}
        /\ Finished => response = 500
        /\ (Finished /\ err \notin {"save", "connect"}) => err = "unknown_table"

UnknownTableWitness ==
    /\ Finished
    /\ file \notin TableNames
    /\ err = "unknown_table"
    /\ \E t \in tables : db[t] # <<>> /\ t \in files

\* C6 as claimed: after a call whose k-th upsert raised, the table holds the
\* records upserted before the failure.
PartialUpsertsRemain ==
    (Finished /\ err = "upsert") =>
        db[file] = ApplyAll(pre.db[file], SubSeq(valid_rows, 1, k - 1))

\* C6 as amended: when the k-th upsert raises, the first k-1 records have been
\* applied inside the open transaction and no later one has; the error propagates
\* (status 500), the connection is closed without a commit and the database holds
\* the rows of before the call: the records applied before the failure are lost
\* with the transaction, and no backup is written.
FailedUpsertDiscardsBatch ==
    err = "upsert" =>
        /\ pc = "finally" => work = ApplyAll(pre.db[file], SubSeq(valid_rows, 1, k - 1))
        /\ db = pre.db
        /\ backup = pre.backup
        /\ Finished => response = 500

FailedUpsertWitness ==
    /\ Finished
    /\ err = "upsert"
    /\ k > 1
    /\ ApplyAll(pre.db[file], SubSeq(valid_rows, 1, k - 1)) # pre.db[file]

\* error kinds of the table level, the storage level and the export level
TableStorageExportErrors == {"create", "connect", "upsert", "commit", "export"}

\* errors of the uploaded file: saving it, reading or parsing it, removing it
FileErrors == {"save", "read", "remove"}

\* C7 as claimed: a call on a known table (whose temporary file could be saved and
\* removed) answers 200 unless a table-level, storage-level or export-level error
\* occurred.
FailsOnlyOnStorageErrors ==
    (Finished /\ file \in TableNames /\ err \notin {"save", "remove"}) =>
        (response = 200 <=> err \notin TableStorageExportErrors)

\* C7 as amended: a call on a known table answers 200 exactly when no step raised,
\* however many rows were invalid, and answers 500 only when an error of the
\* uploaded file (saving it, reading or parsing it: an empty or mis-shaped CSV,
\* removing it), of the table level, of the storage level or of the export level
\* occurred, never because rows were invalid.
FailsOnlyOnErrors ==
    (Finished /\ file \in TableNames) =>
        /\ response = 200 <=> err = "none"
        /\ response = 500 <=> err \in TableStorageExportErrors \cup FileErrors

AllInvalidStillSucceedsWitness ==
    /\ Finished
    /\ file \in TableNames
    /\ response = 200
    /\ Len(invalid_rows) = 2
    /\ valid_rows = <<>>

\* C8: after a call that answered 200 the backup file of the table exists and
\* holds, in table order, one record per row of the table and no other record,
\* every field being the string form of the stored value (the numeral for an
\* integer); the rows upserted by the call are among them.
BackupMatchesTable ==
    (Finished /\ response = 200) =>
        /\ file \in files
        /\ Len(backup[file]) = Len(db[file])
        /\ \A i \in 1..Len(db[file]) :
              /\ DOMAIN backup[file][i] = ColSet(file)
              /\ \A c \in ColSet(file) :
                    IF c \in IntColumns
                    THEN /\ IsNumeric(backup[file][i][c])
                         /\ ToInt(backup[file][i][c]) = db[file][i][c]
                    ELSE backup[file][i][c] = db[file][i][c]
        /\ \A j \in 1..Len(valid_rows) :
              \E i \in 1..Len(backup[file]) :
                  /\ backup[file][i].id = Digits[valid_rows[j].id]
                  /\ db[file][i].id = valid_rows[j].id

BackupRewrittenWitness ==
    /\ Finished
    /\ response = 200
    /\ pre.backup[file] # <<>>
    /\ valid_rows # <<>>
    /\ backup[file] # pre.backup[file]
    /\ Len(backup[file]) = 2

\* C9: from the moment the export raises to the end of the call, the table holds
\* the rows of before the call with every valid row of the batch upserted, the
\* other tables are untouched, and the call answers 500.
ExportFailureKeepsUpserts ==
    err = "export" =>
        /\ db[file] = ApplyAll(pre.db[file], valid_rows)
        /\ OtherTablesKept
        /\ Finished => response = 500

ExportFailureWitness ==
    /\ Finished
    /\ err = "export"
    /\ valid_rows # <<>>
    /\ db[file] # pre.db[file]

\* C10: when no call is running, and once the orchestrator's finally block has run,
\* neither the orchestrator's connection nor the exporter's is open; the
\* exporter's is closed before the orchestrator's finally block.
ConnectionsReleased ==
    /\ pc \in {"idle", "save", "connect", "remove", "respond"} => ~conn /\ ~bconn
    /\ pc = "finally" => ~bconn

ReleasedAfterFailuresWitness ==
    /\ Finished
    /\ calls = 2
    /\ err = "export"
    /\ files = {}
    /\ ~conn
    /\ ~bconn

====
